---- MODULE Spec2Model ----
(***************************************************************************)
(* Model of the skill-proof backend: the mini-test attempt lifecycle       *)
(* (startTest / submitTest / getUserTestAttempts), the certificate issuer  *)
(* (generateCertificate / verifyCertificate), the proof pipeline           *)
(* (uploadSkillProof / processAIVerification), skill claims                *)
(* (addUserSkill), registration (registerUser) and job applications        *)
(* (applyForJob), as request handlers whose store statements (each awaited *)
(* db.select / db.insert / db.update) are separate atomic steps, run by    *)
(* several concurrent calls against one relational store.                  *)
(***************************************************************************)
EXTENDS Integers, Sequences, FiniteSets, TLC

(* ---------------------------- bounds ---------------------------------- *)
NumCalls == 2
MaxQuestionId == 2
MaxAttempts == 1
MaxTime == 2
MaxPoints == 2
MaxCertificates == 2
MaxSuffix == 1
MaxProofs == 2
MaxUserSkills == 2
MaxFlowProofs == 1
MaxUsers == 3
MaxApplications == 2
MaxListedAttempts == 4

\* the least AI score of a verified proof
VerifiedThreshold == 70

Calls == 1..NumCalls
Users == 1..2
AnswerValues == {"a", "b"}
PointValues == 1..MaxPoints
Suffixes == 0..MaxSuffix
PassingScores == {MaxPoints}

(* a nullable timestamp column: NULL, or the one-element tuple of a time *)
NULL == << >>
At(t) == <<t>>

VARIABLES
  userSkills,      \* user_skills table: sequence indexed by serial id
  miniTests,       \* mini_tests table: sequence indexed by serial id
  testQuestions,   \* test_questions table: set of rows
  nextQuestionId,  \* the serial of test_questions
  testAttempts,    \* test_attempts table: sequence indexed by serial id
  certificates,    \* certificates table: sequence indexed by serial id
  now,             \* the wall clock (Date.now / new Date)
  calls,           \* the handler invocations in flight: position and locals
  users,           \* users table: sequence indexed by serial id
  skills,          \* skills table: sequence indexed by serial id
  skillProofs,     \* skill_proofs table: sequence indexed by serial id
  jobListings,     \* job_listings table: sequence indexed by serial id
  jobApplications  \* job_applications table: sequence indexed by serial id

vars == <<userSkills, miniTests, testQuestions, nextQuestionId, testAttempts,
          certificates, now, calls, users, skills, skillProofs, jobListings,
          jobApplications>>

\* the tables the test pipeline and the certificate issuer never write
OtherTables == <<users, skills, skillProofs, jobListings, jobApplications>>

(* ---------------------- seeded reference data ------------------------- *)
\* user_skills rows 1..2: each of the two users holds skill 1.
SeedUserSkills(v) ==
  << [user_id |-> 1, skill_id |-> 1, is_verified |-> v[1],
      verification_date |-> IF v[1] THEN At(1) ELSE NULL],
     [user_id |-> 2, skill_id |-> 1, is_verified |-> v[2],
      verification_date |-> IF v[2] THEN At(1) ELSE NULL] >>

\* randomBytes(32).toString('hex'): the salts drawn
Salts == {"s1", "s2"}

\* pbkdf2Sync(password, salt, SALT_ROUNDS, 64, 'sha512').toString('hex'): a
\* value fixed by the password and the salt
Pbkdf2(password, salt) == <<"pbkdf2", password, salt>>

\* `${salt}:${hash}`: the pair of the salt and the derived hash
HashPassword(password, salt) == <<salt, Pbkdf2(password, salt)>>

\* the columns of a users row besides email and password_hash: the name
\* and phone given at registration, and the defaults of the rest
ProfileColumns(fullName, phone, t) ==
  [full_name |-> fullName, phone |-> phone, profile_photo |-> NULL,
   location |-> NULL, bio |-> NULL, rating |-> NULL, is_verified |-> FALSE,
   updated_at |-> t]

\* users rows 1..2, as registerUser leaves them
SeedUsers ==
  << [email |-> "a@x", password_hash |-> HashPassword("pa", "s1")]
       @@ ProfileColumns("n1", At("p1"), 1),
     [email |-> "b@x", password_hash |-> HashPassword("pb", "s2")]
       @@ ProfileColumns("n1", NULL, 1) >>

\* skills rows 1..2, as createSkill leaves them
SeedSkills == << [is_active |-> TRUE], [is_active |-> TRUE] >>

\* the tables outside the pipeline at hand: two users, two skills, no
\* proofs, job listings or applications
InitOtherTables ==
  /\ users = SeedUsers
  /\ skills = SeedSkills
  /\ skillProofs = << >>
  /\ jobListings = << >>
  /\ jobApplications = << >>

\* mini_tests rows 1..2: an active test and an inactive one.
SeedMiniTests(ps) ==
  << [skill_id |-> 1, passing_score |-> ps, is_active |-> TRUE],
     [skill_id |-> 1, passing_score |-> ps, is_active |-> FALSE] >>

UserSkillIds == 1..3    \* 3 is the id of no row
TestIds == 1..3         \* 3 is the id of no row

(* ------------------------- pure helpers ------------------------------- *)
\* question.id.toString(): decimal formatting of the serial id
IdToString(id) == ToString(id)

\* keys a caller may use in the answers record: the decimal spellings of
\* the ids the serial can hand out (a key is "extra" when no question of the
\* attempt's test has that id)
AnswerKeys == {IdToString(i) : i \in 1..MaxQuestionId}

AnswerMaps ==
  UNION {[K -> AnswerValues] : K \in SUBSET AnswerKeys}

\* JSON.stringify of the answers record: the integer-like keys in
\* ascending order, each with its value
RECURSIVE StringifyFrom(_, _)
StringifyFrom(answers, i) ==
  IF i > MaxQuestionId
    THEN << >>
    ELSE (IF IdToString(i) \in DOMAIN answers
            THEN << <<IdToString(i), answers[IdToString(i)]>> >>
            ELSE << >>) \o StringifyFrom(answers, i + 1)

JSONStringifyAnswers(answers) == StringifyFrom(answers, 1)

\* the literal '{}' written by startTest
EmptyAnswers == << >>

\* db.select().from(userSkillsTable).where(id = usId and user_id = userId)
SelectOwnedUserSkill(usId, userId) ==
  {i \in DOMAIN userSkills : i = usId /\ userSkills[i].user_id = userId}

\* mutant: the is_active condition is missing
SelectAnyTest(testId) ==
  {i \in DOMAIN miniTests : i = testId}

\* db.select().from(miniTestsTable).where(id = testId and is_active)
SelectActiveTest(testId) ==
  {i \in DOMAIN miniTests : i = testId /\ miniTests[i].is_active}

\* db.select().from(testQuestionsTable).where(test_id = testId)
SelectQuestions(testId) ==
  {q \in testQuestions : q.test_id = testId}

\* questions.reduce((sum, question) => sum + question.points, 0)
RECURSIVE ReducePoints(_, _)
ReducePoints(qs, sum) ==
  IF qs = {} THEN sum
  ELSE LET q == CHOOSE x \in qs : TRUE
       IN ReducePoints(qs \ {q}, sum + q.points)

TotalPoints(qs) == ReducePoints(qs, 0)

\* mutant: the join does not filter on the caller
SelectAttemptOfAnyUser(attemptId, userId) ==
  {i \in DOMAIN testAttempts : i = attemptId}

\* test_attempts inner join user_skills on user_skill_id
\*   where test_attempts.id = attemptId and user_skills.user_id = userId
SelectAttemptOfUser(attemptId, userId) ==
  {i \in DOMAIN testAttempts :
     /\ i = attemptId
     /\ testAttempts[i].user_skill_id \in DOMAIN userSkills
     /\ userSkills[testAttempts[i].user_skill_id].user_id = userId}

\* mutant: any answer given for the question counts
AnswerIsCorrectAnyAnswer(q, answers) == IdToString(q.id) \in DOMAIN answers

\* userAnswer === question.correct_answer (undefined when the key is absent)
AnswerIsCorrect(q, answers) ==
  /\ IdToString(q.id) \in DOMAIN answers
  /\ answers[IdToString(q.id)] = q.correct_answer

\* the forEach loop that accumulates the score
RECURSIVE ScoreLoop(_, _, _)
ScoreLoop(qs, answers, score) ==
  IF qs = {} THEN score
  ELSE LET q == CHOOSE x \in qs : TRUE
       IN ScoreLoop(qs \ {q}, answers,
                    IF AnswerIsCorrect(q, answers) THEN score + q.points ELSE score)

CalcScore(qs, answers) == ScoreLoop(qs, answers, 0)

\* mutant: the completed_at check is missing
AlreadyCompletedNoCheck(attempt) == FALSE

\* if (attempt.completed_at !== null) throw 'Test attempt already completed'
AlreadyCompleted(attempt) == attempt.completed_at # NULL

\* const passed = score >= test.passing_score
Passed(score, test) == score >= test.passing_score

Idle == [pc |-> "idle"]
\* a returned call: the handler, the caller, the id of the row the call was
\* about, and what the handler returned ("ok") or threw
Done(op, userId, id, res) ==
  [pc |-> "done", op |-> op, userId |-> userId, id |-> id, result |-> res]
\* a returned call of which only the outcome is kept
Returned(op, res) == [pc |-> "done", op |-> op, result |-> res]
Free(c) == calls[c].pc \in {"idle", "done"}

TestVars == <<miniTests, testQuestions, nextQuestionId, testAttempts>>

(* ---------------------------- startTest -------------------------------- *)
\* first statement: select the user skill owned by the caller
StartTestUserSkill(c) ==
  /\ Free(c)
  /\ \E userId \in Users, usId \in UserSkillIds, testId \in TestIds :
       LET args == [userId |-> userId, user_skill_id |-> usId, test_id |-> testId]
       IN calls' = [calls EXCEPT ![c] =
            IF SelectOwnedUserSkill(usId, userId) = {}
              THEN Returned("startTest", "NotFound")
              ELSE [pc |-> "st_test", op |-> "startTest", args |-> args]]
  /\ UNCHANGED <<OtherTables, userSkills, TestVars, certificates, now>>

\* second statement: select the active test
StartTestTest(c) ==
  /\ calls[c].pc = "st_test"
  /\ calls' = [calls EXCEPT ![c] =
       IF SelectActiveTest(calls[c].args.test_id) = {}
         THEN Returned("startTest", "NotFound")
         ELSE [pc |-> "st_questions", op |-> "startTest", args |-> calls[c].args]]
  /\ UNCHANGED <<OtherTables, userSkills, TestVars, certificates, now>>

\* third statement: select the questions, then reduce them to totalPoints
StartTestQuestions(c) ==
  /\ calls[c].pc = "st_questions"
  /\ calls' = [calls EXCEPT ![c] =
       [pc |-> "st_insert", op |-> "startTest", args |-> calls[c].args,
        totalPoints |-> TotalPoints(SelectQuestions(calls[c].args.test_id))]]
  /\ UNCHANGED <<OtherTables, userSkills, TestVars, certificates, now>>

\* mutant: the attempt is inserted as already passed
NewAttemptPassed(args, totalPoints, t) ==
  [user_skill_id |-> args.user_skill_id,
   test_id |-> args.test_id,
   score |-> 0,
   total_points |-> totalPoints,
   passed |-> TRUE,
   started_at |-> t,
   completed_at |-> NULL,
   answers |-> EmptyAnswers]

\* the row startTest inserts; started_at is the column default now()
NewAttempt(args, totalPoints, t) ==
  [user_skill_id |-> args.user_skill_id,
   test_id |-> args.test_id,
   score |-> 0,
   total_points |-> totalPoints,
   passed |-> FALSE,
   started_at |-> t,
   completed_at |-> NULL,
   answers |-> EmptyAnswers]

\* fourth statement: insert the attempt, the table holding fewer than cap
\* rows
StartTestInsertUpTo(c, cap) ==
  /\ calls[c].pc = "st_insert"
  /\ Len(testAttempts) < cap
  /\ \E t \in now..MaxTime :
       /\ now' = t
       /\ testAttempts' =
            Append(testAttempts, NewAttempt(calls[c].args, calls[c].totalPoints, t))
  /\ calls' = [calls EXCEPT ![c] =
       Returned("startTest", "ok")]
  /\ UNCHANGED <<OtherTables, userSkills, miniTests, testQuestions, nextQuestionId, certificates>>

StartTestInsert(c) == StartTestInsertUpTo(c, MaxAttempts)

(* ---------------------------- submitTest ------------------------------- *)
\* first statement: select the attempt joined with its user skill, then the
\* completed_at check
SubmitTestAttempt(c) ==
  /\ Free(c)
  /\ \E userId \in Users, attemptId \in 1..(MaxAttempts + 1), answers \in AnswerMaps :
       LET args == [userId |-> userId, attempt_id |-> attemptId, answers |-> answers]
           found == SelectAttemptOfUser(attemptId, userId)
       IN calls' = [calls EXCEPT ![c] =
            IF found = {}
              THEN Done("submitTest", userId, attemptId, "NotFound")
            ELSE IF AlreadyCompleted(testAttempts[attemptId])
              THEN Done("submitTest", userId, attemptId, "AlreadyCompleted")
            ELSE [pc |-> "sub_questions", op |-> "submitTest", args |-> args,
                  test_id |-> testAttempts[attemptId].test_id]]
  /\ UNCHANGED <<OtherTables, userSkills, TestVars, certificates, now>>

\* second statement: select the questions of the attempt's test
SubmitTestQuestions(c) ==
  /\ calls[c].pc = "sub_questions"
  /\ calls' = [calls EXCEPT ![c] =
       [pc |-> "sub_test", op |-> "submitTest", args |-> calls[c].args,
        test_id |-> calls[c].test_id,
        questions |-> SelectQuestions(calls[c].test_id)]]
  /\ UNCHANGED <<OtherTables, userSkills, TestVars, certificates, now>>

\* third statement: select the test, then score and pass/fail
SubmitTestTest(c) ==
  /\ calls[c].pc = "sub_test"
  /\ LET test == miniTests[calls[c].test_id]
         score == CalcScore(calls[c].questions, calls[c].args.answers)
     IN calls' = [calls EXCEPT ![c] =
          [pc |-> "sub_update", op |-> "submitTest", args |-> calls[c].args,
           score |-> score, passed |-> Passed(score, test)]]
  /\ UNCHANGED <<OtherTables, userSkills, TestVars, certificates, now>>

\* mutant: the update also rewrites total_points
CompletedAttemptRecomputed(row, score, passed, t, answers) ==
  [row EXCEPT !.score = score,
              !.total_points = score,
              !.passed = passed,
              !.completed_at = At(t),
              !.answers = JSONStringifyAnswers(answers)]

\* the columns submitTest sets on the row
CompletedAttempt(row, score, passed, t, answers) ==
  [row EXCEPT !.score = score,
              !.passed = passed,
              !.completed_at = At(t),
              !.answers = JSONStringifyAnswers(answers)]

\* fourth statement: update the attempt where id = attempt_id
SubmitTestUpdate(c) ==
  /\ calls[c].pc = "sub_update"
  /\ \E t \in now..MaxTime :
       /\ now' = t
       /\ testAttempts' = [testAttempts EXCEPT ![calls[c].args.attempt_id] =
            CompletedAttempt(@, calls[c].score, calls[c].passed, t, calls[c].args.answers)]
  /\ calls' = [calls EXCEPT ![c] = Done("submitTest", calls[c].args.userId, calls[c].args.attempt_id, "ok")]
  /\ UNCHANGED <<OtherTables, userSkills, miniTests, testQuestions, nextQuestionId, certificates>>

(* ------------------- question edits by the test author ----------------- *)
AddQuestion ==
  /\ nextQuestionId <= MaxQuestionId
  /\ \E testId \in DOMAIN miniTests, ans \in AnswerValues, pts \in PointValues :
       testQuestions' = testQuestions \cup
         {[id |-> nextQuestionId, test_id |-> testId,
           correct_answer |-> ans, points |-> pts]}
  /\ nextQuestionId' = nextQuestionId + 1
  /\ UNCHANGED <<OtherTables, userSkills, miniTests, testAttempts, certificates, now, calls>>

RemoveQuestion ==
  /\ \E q \in testQuestions : testQuestions' = testQuestions \ {q}
  /\ UNCHANGED <<OtherTables, userSkills, miniTests, nextQuestionId, testAttempts,
                 certificates, now, calls>>

(* ------------------------ generateCertificate -------------------------- *)
\* mutant: only the existence of the user skill is checked
NotVerifiedOnlyMissing(usId) == usId \notin DOMAIN userSkills

\* !userSkill.length || !userSkill[0].is_verified
NotVerified(usId) ==
  \/ usId \notin DOMAIN userSkills
  \/ ~userSkills[usId].is_verified

\* db.select().from(certificatesTable).where(user_skill_id = usId)
SelectCertificatesOf(usId) ==
  {i \in DOMAIN certificates : certificates[i].user_skill_id = usId}

\* `CERT-${timestamp}-${randomSuffix}`: the pair of its two components
CertificateNumber(timestamp, randomSuffix) == <<"CERT", timestamp, randomSuffix>>

\* a JSON string literal and a JSON number literal (its decimal spelling)
JSONString(s) == <<"string", s>>
JSONNumber(n) == <<"number", IdToString(n)>>

\* mutant: the artifact carries the id of the certificate row being created
\* in the place of the user skill id
JSONStringifyQrRowId(certNum, usId, issued) ==
  << <<"cert_num", JSONString(certNum)>>,
     <<"user_skill_id", JSONNumber(Len(certificates) + 1)>>,
     <<"issued", JSONString(issued)>> >>

\* JSON.stringify({cert_num, user_skill_id, issued}): the members in order,
\* the strings as string literals and the id as a number literal
JSONStringifyQr(certNum, usId, issued) ==
  << <<"cert_num", JSONString(certNum)>>,
     <<"user_skill_id", JSONNumber(usId)>>,
     <<"issued", JSONString(issued)>> >>

\* Buffer.from(qrData).toString('base64')
Base64Encode(data) == <<"base64", data>>

\* Buffer.from(qr_code, 'base64').toString()
Base64Decode(code) == code[2]

\* the value a JSON literal parses to: a number literal is read back from
\* its decimal spelling
JSONParseLiteral(lit) ==
  IF lit[1] = "number"
    THEN CHOOSE n \in 0..(MaxCertificates + 3) : IdToString(n) = lit[2]
    ELSE lit[2]

\* the value of the member of a parsed object text under a key
JSONMember(text, key) ==
  JSONParseLiteral(text[CHOOSE k \in DOMAIN text : text[k][1] = key][2])

\* JSON.parse(...) of the artifact text
JSONParseQr(text) ==
  [cert_num |-> JSONMember(text, "cert_num"),
   user_skill_id |-> JSONMember(text, "user_skill_id"),
   issued |-> JSONMember(text, "issued")]

\* mutant: certificate_number has no unique constraint
NoUniqueViolation(certNum) == FALSE

\* certificate_number: text().notNull().unique()
UniqueViolation(certNum) ==
  \E i \in DOMAIN certificates : certificates[i].certificate_number = certNum

\* the row generateCertificate inserts
NewCertificate(usId, certNum, qrCode, issuedDate) ==
  [user_skill_id |-> usId,
   certificate_number |-> certNum,
   qr_code |-> qrCode,
   issued_date |-> issuedDate,
   is_active |-> TRUE]

\* a returned call about the row id
ReturnedFor(op, id, res) == [pc |-> "done", op |-> op, id |-> id, result |-> res]

\* first statement: select the user skill, then the verified check
GenerateCertificateUserSkill(c) ==
  /\ Free(c)
  /\ \E usId \in UserSkillIds :
       calls' = [calls EXCEPT ![c] =
         IF NotVerified(usId)
           THEN ReturnedFor("generateCertificate", usId, "NotVerified")
           ELSE [pc |-> "gc_existing", op |-> "generateCertificate", id |-> usId]]
  /\ UNCHANGED <<OtherTables, userSkills, TestVars, certificates, now>>

\* second statement: select the certificates of the user skill
GenerateCertificateExisting(c) ==
  /\ calls[c].pc = "gc_existing"
  /\ calls' = [calls EXCEPT ![c] =
       IF SelectCertificatesOf(calls[c].id) # {}
         THEN ReturnedFor("generateCertificate", calls[c].id, "AlreadyExists")
         ELSE [pc |-> "gc_insert", op |-> "generateCertificate", id |-> calls[c].id]]
  /\ UNCHANGED <<OtherTables, userSkills, TestVars, certificates, now>>

\* third statement: mint the number and the QR payload, insert the row; the
\* store rejects a certificate_number it already holds
GenerateCertificateInsert(c) ==
  /\ calls[c].pc = "gc_insert"
  /\ Len(certificates) < MaxCertificates
  /\ \E timestamp \in now..MaxTime, randomSuffix \in Suffixes :
     \E issued \in timestamp..MaxTime :
     \E issuedDate \in issued..MaxTime :
       LET usId == calls[c].id
           certNum == CertificateNumber(timestamp, randomSuffix)
           qrCode == Base64Encode(JSONStringifyQr(certNum, usId, issued))
       IN /\ now' = issuedDate
          /\ IF UniqueViolation(certNum)
               THEN /\ certificates' = certificates
                    /\ calls' = [calls EXCEPT ![c] =
                         ReturnedFor("generateCertificate", usId, "StoreError")]
               ELSE /\ certificates' = Append(certificates,
                         NewCertificate(usId, certNum, qrCode, issuedDate))
                    /\ calls' = [calls EXCEPT ![c] =
                         ReturnedFor("generateCertificate", usId, "ok")]
  /\ UNCHANGED <<OtherTables, userSkills, TestVars>>

\* revocation: the store sets is_active = false on a certificate
RevokeCertificate ==
  /\ \E i \in DOMAIN certificates :
       /\ certificates[i].is_active
       /\ certificates' = [certificates EXCEPT ![i].is_active = FALSE]
  /\ UNCHANGED <<OtherTables, userSkills, TestVars, now, calls>>

(* ---------------------------- addUserSkill ----------------------------- *)
UserIds == 1..3     \* 3 is the id of no row
SkillIds == 1..3    \* 3 is the id of no row

\* db.select().from(userSkillsTable).where(user_id = userId and skill_id = skillId)
SelectUserSkillsOfPair(userId, skillId) ==
  {i \in DOMAIN userSkills :
     userSkills[i].user_id = userId /\ userSkills[i].skill_id = skillId}

\* the row addUserSkill inserts: is_verified and verification_date take
\* their defaults, false and null
NewUserSkill(userId, skillId) ==
  [user_id |-> userId, skill_id |-> skillId,
   is_verified |-> FALSE, verification_date |-> NULL]

\* first statement: select the user
AddUserSkillUser(c) ==
  /\ Free(c)
  /\ \E userId \in UserIds, skillId \in SkillIds :
       calls' = [calls EXCEPT ![c] =
         IF userId \notin DOMAIN users
           THEN Done("addUserSkill", userId, skillId, "NotFound")
           ELSE [pc |-> "add_skill", op |-> "addUserSkill",
                 userId |-> userId, id |-> skillId]]
  /\ UNCHANGED <<userSkills, TestVars, certificates, now, OtherTables>>

\* second statement: select the skill
AddUserSkillSkill(c) ==
  /\ calls[c].pc = "add_skill"
  /\ calls' = [calls EXCEPT ![c] =
       IF calls[c].id \notin DOMAIN skills
         THEN Done("addUserSkill", calls[c].userId, calls[c].id, "NotFound")
         ELSE [calls[c] EXCEPT !.pc = "add_existing"]]
  /\ UNCHANGED <<userSkills, TestVars, certificates, now, OtherTables>>

\* third statement: select the user skills of the pair
AddUserSkillExisting(c) ==
  /\ calls[c].pc = "add_existing"
  /\ calls' = [calls EXCEPT ![c] =
       IF SelectUserSkillsOfPair(calls[c].userId, calls[c].id) # {}
         THEN Done("addUserSkill", calls[c].userId, calls[c].id, "AlreadyExists")
         ELSE [calls[c] EXCEPT !.pc = "add_insert"]]
  /\ UNCHANGED <<userSkills, TestVars, certificates, now, OtherTables>>

\* fourth statement: insert the user skill
AddUserSkillInsert(c) ==
  /\ calls[c].pc = "add_insert"
  /\ Len(userSkills) < MaxUserSkills
  /\ userSkills' = Append(userSkills, NewUserSkill(calls[c].userId, calls[c].id))
  /\ calls' = [calls EXCEPT ![c] =
       Done("addUserSkill", calls[c].userId, calls[c].id, "ok")]
  /\ UNCHANGED <<TestVars, certificates, now, OtherTables>>

(* --------------------------- skill proofs ------------------------------ *)
\* mutant: the user_id condition is missing
SelectUserSkillOfAnyUser(usId, userId) ==
  {i \in DOMAIN userSkills : i = usId}

\* db.select().from(userSkillsTable).where(id = usId and user_id = userId),
\* as uploadSkillProof issues it
SelectUserSkillOfUser(usId, userId) ==
  {i \in DOMAIN userSkills : i = usId /\ userSkills[i].user_id = userId}

\* the row uploadSkillProof inserts: the score and the feedback columns take
\* their default, null (file_url, file_type and description are payload)
NewSkillProof(usId) ==
  [user_skill_id |-> usId,
   upload_status |-> "uploaded",
   ai_verification_score |-> NULL,
   ai_feedback |-> NULL]

\* first statement of uploadSkillProof: select the user skill of the caller
UploadSkillProofUserSkill(c) ==
  /\ Free(c)
  /\ \E userId \in Users, usId \in UserSkillIds :
       calls' = [calls EXCEPT ![c] =
         IF SelectUserSkillOfUser(usId, userId) = {}
           THEN Done("uploadSkillProof", userId, usId, "NotAuthorized")
           ELSE [pc |-> "up_insert", op |-> "uploadSkillProof",
                 userId |-> userId, id |-> usId]]
  /\ UNCHANGED <<userSkills, TestVars, certificates, now, OtherTables>>

\* second statement of uploadSkillProof: insert the proof
UploadSkillProofInsert(c) ==
  /\ calls[c].pc = "up_insert"
  /\ Len(skillProofs) < MaxProofs
  /\ skillProofs' = Append(skillProofs, NewSkillProof(calls[c].id))
  /\ calls' = [calls EXCEPT ![c] =
       Done("uploadSkillProof", calls[c].userId, calls[c].id, "ok")]
  /\ UNCHANGED <<userSkills, TestVars, certificates, now, users, skills,
                 jobListings, jobApplications>>

\* Math.random() * 100, in thousandths: the least score, a score just under
\* the threshold, the threshold, and a score just under 100
AiScores == {0, 69996, VerifiedThreshold * 1000, 99996}

\* the five entries of aiReasons
AiReasons ==
  << "Good technique demonstrated",
     "Clear demonstration of skill proficiency",
     "Professional quality work shown",
     "Adequate skill level displayed",
     "Needs improvement in execution" >>

\* Math.floor(Math.random() * aiReasons.length): the first and the last
\* index drawn
FeedbackDraws == {1, Len(AiReasons)}

\* numeric(5, 2): the store keeps a score rounded to the nearest hundredth
\* (the result is in hundredths)
Numeric52(aiScore) == (aiScore + 5) \div 10

\* aiScore >= 70 ? 'verified' : 'rejected'
UploadStatus(aiScore) ==
  IF aiScore >= VerifiedThreshold * 1000 THEN "verified" ELSE "rejected"

ProofIds == 1..(MaxProofs + 1)    \* the last is the id of no row

\* mutant: a verified proof also marks its user skill verified
ProcessAIVerificationMarksUserSkill(c) ==
  /\ Free(c)
  /\ \E proofId \in ProofIds, aiScore \in AiScores, draw \in FeedbackDraws :
       IF proofId \in DOMAIN skillProofs
         THEN /\ skillProofs' = [skillProofs EXCEPT ![proofId] =
                   [@ EXCEPT !.upload_status = UploadStatus(aiScore),
                             !.ai_verification_score = At(Numeric52(aiScore)),
                             !.ai_feedback = At(AiReasons[draw])]]
              /\ userSkills' = [userSkills EXCEPT
                   ![skillProofs[proofId].user_skill_id].is_verified =
                     (UploadStatus(aiScore) = "verified")]
              /\ calls' = [calls EXCEPT ![c] =
                   ReturnedFor("processAIVerification", proofId, "ok")]
         ELSE /\ skillProofs' = skillProofs
              /\ userSkills' = userSkills
              /\ calls' = [calls EXCEPT ![c] =
                   ReturnedFor("processAIVerification", proofId, "NotFound")]
  /\ UNCHANGED <<TestVars, certificates, now, users, skills,
                 jobListings, jobApplications>>

\* mutant: the update leaves the feedback column alone
VerificationResultNoFeedback(proof, aiScore, aiFeedback) ==
  [proof EXCEPT !.upload_status = UploadStatus(aiScore),
                !.ai_verification_score = At(Numeric52(aiScore))]

\* the columns the update of processAIVerification sets
VerificationResult(proof, aiScore, aiFeedback) ==
  [proof EXCEPT !.upload_status = UploadStatus(aiScore),
                !.ai_verification_score = At(Numeric52(aiScore)),
                !.ai_feedback = At(aiFeedback)]

\* mutant: only a proof that is still 'uploaded' is verified
ProcessAIVerificationOnlyUploaded(c) ==
  /\ Free(c)
  /\ \E proofId \in ProofIds, aiScore \in AiScores, draw \in FeedbackDraws :
       IF proofId \in DOMAIN skillProofs
            /\ skillProofs[proofId].upload_status = "uploaded"
         THEN /\ skillProofs' = [skillProofs EXCEPT ![proofId] =
                   [@ EXCEPT !.upload_status = UploadStatus(aiScore),
                             !.ai_verification_score = At(Numeric52(aiScore)),
                             !.ai_feedback = At(AiReasons[draw])]]
              /\ calls' = [calls EXCEPT ![c] =
                   ReturnedFor("processAIVerification", proofId, "ok")]
         ELSE /\ skillProofs' = skillProofs
              /\ calls' = [calls EXCEPT ![c] =
                   ReturnedFor("processAIVerification", proofId,
                     IF proofId \in DOMAIN skillProofs
                       THEN "Conflict" ELSE "NotFound")]
  /\ UNCHANGED <<userSkills, TestVars, certificates, now, users, skills,
                 jobListings, jobApplications>>

\* processAIVerification: draw the score and the feedback, update the proof
\* by id; no row updated is 'Skill proof not found'
ProcessAIVerification(c) ==
  /\ Free(c)
  /\ \E proofId \in ProofIds, aiScore \in AiScores, draw \in FeedbackDraws :
       LET aiFeedback == AiReasons[draw] IN
       IF proofId \in DOMAIN skillProofs
         THEN /\ skillProofs' = [skillProofs EXCEPT ![proofId] =
                   VerificationResult(skillProofs[proofId], aiScore, aiFeedback)]
              /\ calls' = [calls EXCEPT ![c] =
                   ReturnedFor("processAIVerification", proofId, "ok")]
         ELSE /\ skillProofs' = skillProofs
              /\ calls' = [calls EXCEPT ![c] =
                   ReturnedFor("processAIVerification", proofId, "NotFound")]
  /\ UNCHANGED <<userSkills, TestVars, certificates, now, users, skills,
                 jobListings, jobApplications>>

(* ---------------------------- registerUser ----------------------------- *)
\* the emails and passwords callers register with: the email of seeded
\* user 1 and two emails of no user
Emails == {"a@x", "c@x", "d@x"}
Passwords == {"pa", "pb"}

\* db.select().from(usersTable).where(email = email)
SelectUsersByEmail(email) ==
  {i \in DOMAIN users : users[i].email = email}

\* email: text().notNull().unique()
UniqueEmailViolation(email) ==
  \E i \in DOMAIN users : users[i].email = email

\* the row registerUser inserts: the input's email, the hash, the input's
\* full_name and phone (one name, no phone), and the column defaults
NewUser(email, passwordHash) ==
  [email |-> email, password_hash |-> passwordHash]
    @@ ProfileColumns("n1", NULL, now)

\* first statement: select the users with the email
RegisterUserExisting(c) ==
  /\ Free(c)
  /\ \E email \in Emails, password \in Passwords :
       calls' = [calls EXCEPT ![c] =
         IF SelectUsersByEmail(email) # {}
           THEN ReturnedFor("registerUser", email, "AlreadyExists")
           ELSE [pc |-> "reg_insert", op |-> "registerUser",
                 id |-> email, password |-> password]]
  /\ UNCHANGED <<userSkills, TestVars, certificates, now, OtherTables>>

\* second statement: hash the password and insert the user; the store
\* rejects an email it already holds, and the handler rethrows that error
RegisterUserInsert(c) ==
  /\ calls[c].pc = "reg_insert"
  /\ UniqueEmailViolation(calls[c].id) \/ Len(users) < MaxUsers
  /\ \E salt \in Salts :
       IF UniqueEmailViolation(calls[c].id)
         THEN /\ users' = users
              /\ calls' = [calls EXCEPT ![c] =
                   ReturnedFor("registerUser", calls[c].id, "StoreError")]
         ELSE /\ users' = Append(users,
                   NewUser(calls[c].id, HashPassword(calls[c].password, salt)))
              /\ calls' = [calls EXCEPT ![c] =
                   ReturnedFor("registerUser", calls[c].id, "ok")]
  /\ UNCHANGED <<userSkills, TestVars, certificates, now, skills,
                 skillProofs, jobListings, jobApplications>>

(* ------------------------------ loginUser ------------------------------ *)
\* verifyPassword: split the stored value into salt and hash, derive the
\* hash of the given password with that salt, compare
VerifyPassword(password, hashedPassword) ==
  Pbkdf2(password, hashedPassword[1]) = hashedPassword[2]

JWT_SECRET == "development_secret_key"

\* createHash('sha256').update(data).digest('base64url'): a value fixed by
\* the data
Sha256(data) == <<"sha256", data>>

\* createJWT: header, payload with iat and exp (seven days later, in
\* seconds), and the signature over both and the secret
CreateJWT(payload, secret, t) ==
  LET jwtPayload == [userId |-> payload.userId, email |-> payload.email,
                     iat |-> t, exp |-> t + 7 * 24 * 60 * 60]
  IN <<"HS256", jwtPayload, Sha256(<<"HS256", jwtPayload, secret>>)>>

\* the emails and passwords callers log in with: the emails of the seeded
\* users, emails that get registered, an email nobody registers
LoginEmails == Emails \cup {"b@x", "z@x"}

\* mutant: the message thrown for an email of no user
UnknownEmailErrorRevealing == "User not found"

\* the message thrown for an email of no user
UnknownEmailError == "Invalid email or password"

\* the message thrown for a password that does not verify
WrongPasswordError == "Invalid email or password"

\* a returned loginUser call: the input and what it returned or threw
LoginReturned(email, password, res) ==
  [pc |-> "done", op |-> "loginUser", id |-> email, password |-> password,
   result |-> res]

\* the one statement of loginUser, the password check and the return
LoginUser(c) ==
  /\ Free(c)
  /\ \E email \in LoginEmails, password \in Passwords :
       LET found == SelectUsersByEmail(email)
           userId == CHOOSE i \in found : TRUE
       IN calls' = [calls EXCEPT ![c] =
            IF found = {}
              THEN LoginReturned(email, password, UnknownEmailError)
            ELSE IF ~VerifyPassword(password, users[userId].password_hash)
              THEN LoginReturned(email, password, WrongPasswordError)
            ELSE LoginReturned(email, password, "ok")
                   @@ [user |-> userId,
                       token |-> CreateJWT([userId |-> userId, email |-> email],
                                           JWT_SECRET, now)]]
  /\ UNCHANGED <<userSkills, TestVars, certificates, now, OtherTables>>

(* -------------------------- updateUserProfile -------------------------- *)
\* the fields of updateProfileInputSchema: full_name is a string, the other
\* four are nullable
ProfileFields == {"full_name", "phone", "profile_photo", "location", "bio"}

NullableProfileFields == ProfileFields \ {"full_name"}

\* the inputs: any subset of the fields is present (the rest undefined);
\* full_name with a string, a nullable field with null or a string
UpdateProfileInputs ==
  LET nullable == UNION {[F -> {NULL, At("v")}] : F \in SUBSET NullableProfileFields}
  IN nullable \cup {[full_name |-> "n2"] @@ input : input \in nullable}

\* mutant: a field given as null is treated as omitted
UpdateDataSkipsNull(row, input, t) ==
  [f \in DOMAIN row |->
     IF f = "updated_at" THEN t
     ELSE IF f \in DOMAIN input /\ (f = "full_name" \/ input[f] # NULL)
       THEN input[f]
     ELSE row[f]]

\* updateData applied to the row: updated_at, and each of the five fields
\* that is not undefined in the input
UpdateData(row, input, t) ==
  [f \in DOMAIN row |->
     IF f = "updated_at" THEN t
     ELSE IF f \in ProfileFields /\ f \in DOMAIN input THEN input[f]
     ELSE row[f]]

\* first statement: select the user
UpdateUserProfileUser(c) ==
  /\ Free(c)
  /\ \E userId \in UserIds, input \in UpdateProfileInputs :
       calls' = [calls EXCEPT ![c] =
         IF userId \notin DOMAIN users
           THEN ReturnedFor("updateUserProfile", userId, "NotFound")
           ELSE [pc |-> "upd_update", op |-> "updateUserProfile",
                 id |-> userId, input |-> input]]
  /\ UNCHANGED <<userSkills, TestVars, certificates, now, OtherTables>>

\* second statement: update the user
UpdateUserProfileUpdate(c) ==
  /\ calls[c].pc = "upd_update"
  /\ \E t \in now..MaxTime :
       /\ now' = t
       /\ users' = [users EXCEPT ![calls[c].id] =
            UpdateData(users[calls[c].id], calls[c].input, t)]
  /\ calls' = [calls EXCEPT ![c] =
       ReturnedFor("updateUserProfile", calls[c].id, "ok")]
  /\ UNCHANGED <<userSkills, TestVars, certificates, skills, skillProofs,
                 jobListings, jobApplications>>

(* ----------------------------- applyForJob ----------------------------- *)
\* job_listings rows 1..2: an active listing and an inactive one, both of
\* employer 1 and for skill 1
SeedJobListings ==
  << [employer_id |-> 1, skill_id |-> 1, is_active |-> TRUE],
     [employer_id |-> 1, skill_id |-> 1, is_active |-> FALSE] >>

JobListingIds == 1..3    \* 3 is the id of no row

\* where id = jobListingId and is_active = true
SelectActiveJobListing(jobListingId) ==
  {i \in DOMAIN jobListings : i = jobListingId /\ jobListings[i].is_active}

\* where job_listing_id = jobListingId and applicant_id = applicantId
SelectApplicationsOfPair(jobListingId, applicantId) ==
  {i \in DOMAIN jobApplications :
     /\ jobApplications[i].job_listing_id = jobListingId
     /\ jobApplications[i].applicant_id = applicantId}

\* the row applyForJob inserts: status takes its default, pending (message
\* is payload)
NewJobApplication(jobListingId, applicantId) ==
  [job_listing_id |-> jobListingId,
   applicant_id |-> applicantId,
   status |-> "pending"]

\* first statement: select the applicant
ApplyForJobApplicant(c) ==
  /\ Free(c)
  /\ \E applicantId \in UserIds, jobListingId \in JobListingIds :
       calls' = [calls EXCEPT ![c] =
         IF applicantId \notin DOMAIN users
           THEN Done("applyForJob", applicantId, jobListingId, "NotFound")
           ELSE [pc |-> "apply_listing", op |-> "applyForJob",
                 userId |-> applicantId, id |-> jobListingId]]
  /\ UNCHANGED <<userSkills, TestVars, certificates, now, OtherTables>>

\* second statement: select the active job listing
ApplyForJobListing(c) ==
  /\ calls[c].pc = "apply_listing"
  /\ calls' = [calls EXCEPT ![c] =
       IF SelectActiveJobListing(calls[c].id) = {}
         THEN Done("applyForJob", calls[c].userId, calls[c].id, "NotFound")
         ELSE [calls[c] EXCEPT !.pc = "apply_existing"]]
  /\ UNCHANGED <<userSkills, TestVars, certificates, now, OtherTables>>

\* third statement: select the applications of the pair
ApplyForJobExisting(c) ==
  /\ calls[c].pc = "apply_existing"
  /\ calls' = [calls EXCEPT ![c] =
       IF SelectApplicationsOfPair(calls[c].id, calls[c].userId) # {}
         THEN Done("applyForJob", calls[c].userId, calls[c].id, "AlreadyExists")
         ELSE [calls[c] EXCEPT !.pc = "apply_insert"]]
  /\ UNCHANGED <<userSkills, TestVars, certificates, now, OtherTables>>

\* fourth statement: insert the application
ApplyForJobInsert(c) ==
  /\ calls[c].pc = "apply_insert"
  /\ Len(jobApplications) < MaxApplications
  /\ jobApplications' = Append(jobApplications,
       NewJobApplication(calls[c].id, calls[c].userId))
  /\ calls' = [calls EXCEPT ![c] =
       Done("applyForJob", calls[c].userId, calls[c].id, "ok")]
  /\ UNCHANGED <<userSkills, TestVars, certificates, now, users, skills,
                 skillProofs, jobListings>>

(* ------------------------- getProofUploadStatus ------------------------ *)
\* uploadStatusEnum: the values the upload_status column can hold
UploadStatuses == {"uploading", "uploaded", "processing", "verified", "rejected"}

\* the store sets upload_status of a proof to 'uploading' or 'processing'
\* (no handler does; the uploader and the verifier of a deployment would)
SetUploadStatus ==
  /\ \E i \in DOMAIN skillProofs, status \in {"uploading", "processing"} :
       /\ skillProofs[i].upload_status # status
       /\ skillProofs' = [skillProofs EXCEPT ![i].upload_status = status]
  /\ UNCHANGED <<userSkills, TestVars, certificates, now, calls, users, skills,
                 jobListings, jobApplications>>

\* statusProgressMap
StatusProgressMap ==
  [uploading |-> 25, uploaded |-> 50, processing |-> 75,
   verified |-> 100, rejected |-> 100]

\* mutant: every status in the map reads as fully processed
StatusProgressAlwaysDone(status) ==
  IF status \in DOMAIN StatusProgressMap THEN 100 ELSE 0

\* statusProgressMap[status] || 0: the entry of the status when there is one
\* and it is not zero, else 0
StatusProgress(status) ==
  IF status \in DOMAIN StatusProgressMap /\ StatusProgressMap[status] # 0
    THEN StatusProgressMap[status]
    ELSE 0

\* the one statement of getProofUploadStatus and its return
GetProofUploadStatus(c) ==
  /\ Free(c)
  /\ \E proofId \in ProofIds :
       calls' = [calls EXCEPT ![c] =
         IF proofId \notin DOMAIN skillProofs
           THEN ReturnedFor("getProofUploadStatus", proofId, "NotFound")
           ELSE [pc |-> "done", op |-> "getProofUploadStatus", id |-> proofId,
                 result |-> "ok",
                 status |-> skillProofs[proofId].upload_status,
                 progress |-> StatusProgress(skillProofs[proofId].upload_status)]]
  /\ UNCHANGED <<userSkills, TestVars, certificates, now, OtherTables>>

(* ------------------------- verifyCertificate --------------------------- *)
\* the strings a third party may present: every number the issuer can mint,
\* and the empty string
CertificateNumbers ==
  {CertificateNumber(t, r) : t \in 1..MaxTime, r \in Suffixes} \cup {<< >>}

\* mutant: the active flag is not part of the condition
SelectByNumber(certNum) ==
  {i \in DOMAIN certificates : certificates[i].certificate_number = certNum}

\* where certificate_number = certNum and is_active = true
SelectActiveByNumber(certNum) ==
  {i \in DOMAIN certificates :
     /\ certificates[i].certificate_number = certNum
     /\ certificates[i].is_active}

\* results.length > 0 ? results[0] : null
FirstOrNull(results) ==
  IF results # {} THEN At(certificates[CHOOSE i \in results : TRUE]) ELSE NULL

\* the one statement of verifyCertificate and its return
VerifyCertificate(c) ==
  /\ Free(c)
  /\ \E certificateNumber \in CertificateNumbers :
       calls' = [calls EXCEPT ![c] =
         ReturnedFor("verifyCertificate", certificateNumber,
                     FirstOrNull(SelectActiveByNumber(certificateNumber)))]
  /\ UNCHANGED <<OtherTables, userSkills, TestVars, certificates, now>>

(* ------------------ getUserCertificates, downloadCertificate ----------- *)
\* mutant: the is_active condition is missing
SelectCertificatesOfUser(userId) ==
  {i \in DOMAIN certificates :
     /\ certificates[i].user_skill_id \in DOMAIN userSkills
     /\ userSkills[certificates[i].user_skill_id].user_id = userId}

\* certificates inner join user_skills on user_skill_id, where user_id =
\* userId and is_active = true
SelectActiveCertificatesOfUser(userId) ==
  {i \in DOMAIN certificates :
     /\ certificates[i].user_skill_id \in DOMAIN userSkills
     /\ userSkills[certificates[i].user_skill_id].user_id = userId
     /\ certificates[i].is_active}

\* a returned call that carries a value
ReturnedValue(op, id, value) ==
  [pc |-> "done", op |-> op, id |-> id, result |-> "ok", value |-> value]

\* first statement of getUserCertificates: select the user
GetUserCertificatesUser(c) ==
  /\ Free(c)
  /\ \E userId \in UserIds :
       calls' = [calls EXCEPT ![c] =
         IF userId \notin DOMAIN users
           THEN ReturnedFor("getUserCertificates", userId, "NotFound")
           ELSE [pc |-> "guc_select", op |-> "getUserCertificates", id |-> userId]]
  /\ UNCHANGED <<userSkills, TestVars, certificates, now, OtherTables>>

\* second statement of getUserCertificates: select the active certificates
\* of the user's user skills; the rows are returned, here by id
GetUserCertificatesSelect(c) ==
  /\ calls[c].pc = "guc_select"
  /\ calls' = [calls EXCEPT ![c] =
       ReturnedValue("getUserCertificates", calls[c].id,
                     SelectActiveCertificatesOfUser(calls[c].id))]
  /\ UNCHANGED <<userSkills, TestVars, certificates, now, OtherTables>>

CertificateIds == 1..(MaxCertificates + 1)    \* the last is the id of no row

\* certificates inner join user_skills, skills, users, where id =
\* certificateId and is_active = true
SelectActiveCertificate(certificateId) ==
  {i \in DOMAIN certificates :
     /\ i = certificateId
     /\ certificates[i].is_active
     /\ certificates[i].user_skill_id \in DOMAIN userSkills
     /\ userSkills[certificates[i].user_skill_id].skill_id \in DOMAIN skills
     /\ userSkills[certificates[i].user_skill_id].user_id \in DOMAIN users}

\* `https://certificates.skillproof.com/download/${certificate_number}.pdf`
DownloadUrl(certNum) ==
  <<"https://certificates.skillproof.com/download/", certNum, ".pdf">>

\* the one statement of downloadCertificate and its return (the filename,
\* made of the user's and the skill's names, is not modelled)
DownloadCertificate(c) ==
  /\ Free(c)
  /\ \E certificateId \in CertificateIds :
       calls' = [calls EXCEPT ![c] =
         IF SelectActiveCertificate(certificateId) = {}
           THEN ReturnedFor("downloadCertificate", certificateId, "NotFound")
           ELSE ReturnedValue("downloadCertificate", certificateId,
                  DownloadUrl(certificates[certificateId].certificate_number))]
  /\ UNCHANGED <<userSkills, TestVars, certificates, now, OtherTables>>

(* --------------------------- getUserPortfolio -------------------------- *)
\* user_skills inner join skills on skill_id, where user_id = userId
SelectUserSkillsWithSkill(userId) ==
  {i \in DOMAIN userSkills :
     /\ userSkills[i].user_id = userId
     /\ userSkills[i].skill_id \in DOMAIN skills}

\* count() of skill_proofs where user_skill_id = usId
CountProofsOf(usId) ==
  Cardinality({i \in DOMAIN skillProofs : skillProofs[i].user_skill_id = usId})

\* count() of certificates inner join user_skills on user_skill_id, where
\* user_id = userId
CountCertificatesOfUser(userId) ==
  Cardinality({i \in DOMAIN certificates :
                 /\ certificates[i].user_skill_id \in DOMAIN userSkills
                 /\ userSkills[certificates[i].user_skill_id].user_id = userId})

\* first statement of getUserPortfolio: select the user
GetUserPortfolioUser(c) ==
  /\ Free(c)
  /\ \E userId \in UserIds :
       calls' = [calls EXCEPT ![c] =
         IF userId \notin DOMAIN users
           THEN ReturnedFor("getUserPortfolio", userId, "NotFound")
           ELSE [pc |-> "gp_skills", op |-> "getUserPortfolio", id |-> userId]]
  /\ UNCHANGED <<userSkills, TestVars, certificates, now, OtherTables>>

\* second statement: select the user's skills; the loop takes the rows in
\* the order the store returned them, which the query does not fix
GetUserPortfolioSkills(c) ==
  /\ calls[c].pc = "gp_skills"
  /\ LET skillsQuery == SelectUserSkillsWithSkill(calls[c].id)
     IN calls' = [calls EXCEPT ![c] =
          [pc |-> IF skillsQuery = {} THEN "gp_total" ELSE "gp_proofs",
           op |-> "getUserPortfolio", id |-> calls[c].id,
           skillsQuery |-> skillsQuery, skills |-> << >>]]
  /\ UNCHANGED <<userSkills, TestVars, certificates, now, OtherTables>>

\* loop body, first statement: count the proofs of the next user skill
GetUserPortfolioProofCount(c) ==
  /\ calls[c].pc = "gp_proofs"
  /\ \E usId \in calls[c].skillsQuery :
       calls' = [calls EXCEPT ![c] =
         [pc |-> "gp_certificate", op |-> "getUserPortfolio", id |-> calls[c].id,
          skillsQuery |-> calls[c].skillsQuery \ {usId},
          skills |-> calls[c].skills,
          user_skill_id |-> usId,
          is_verified |-> userSkills[usId].is_verified,
          proof_count |-> CountProofsOf(usId)]]
  /\ UNCHANGED <<userSkills, TestVars, certificates, now, OtherTables>>

\* certificateResult.length > 0 ? certificateResult[0].qr_code : undefined,
\* for a first row the query does not fix
CertificateUrls(certificateResult) ==
  IF certificateResult = {}
    THEN {NULL}
    ELSE {At(certificates[i].qr_code) : i \in certificateResult}

\* loop body, second statement: select the certificates of the user skill
\* and push the entry (the skill's name and category are not modelled; the
\* entry is told by its user skill)
GetUserPortfolioCertificate(c) ==
  /\ calls[c].pc = "gp_certificate"
  /\ \E certificate_url \in
          CertificateUrls(SelectCertificatesOf(calls[c].user_skill_id)) :
       calls' = [calls EXCEPT ![c] =
         [pc |-> IF calls[c].skillsQuery = {} THEN "gp_total" ELSE "gp_proofs",
          op |-> "getUserPortfolio", id |-> calls[c].id,
          skillsQuery |-> calls[c].skillsQuery,
          skills |-> Append(calls[c].skills,
            [user_skill_id |-> calls[c].user_skill_id,
             is_verified |-> calls[c].is_verified,
             proof_count |-> calls[c].proof_count,
             certificate_url |-> certificate_url])]]
  /\ UNCHANGED <<userSkills, TestVars, certificates, now, OtherTables>>

\* last statement: count the certificates of the user's skills and return
\* (the user row of the result is not modelled)
GetUserPortfolioTotal(c) ==
  /\ calls[c].pc = "gp_total"
  /\ calls' = [calls EXCEPT ![c] =
       [pc |-> "done", op |-> "getUserPortfolio", id |-> calls[c].id,
        result |-> "ok",
        skills |-> calls[c].skills,
        total_certificates |-> CountCertificatesOfUser(calls[c].id)]]
  /\ UNCHANGED <<userSkills, TestVars, certificates, now, OtherTables>>

(* ------------------------- getUserTestAttempts ------------------------- *)
\* the optional skillId argument: undefined, or a skill id
OptionalSkillIds == {NULL} \cup {At(k) : k \in SkillIds}

\* mutant: the user_id condition is missing
SelectAttemptsOfAnyUser(userId, skillId) ==
  {i \in DOMAIN testAttempts :
     LET us == userSkills[testAttempts[i].user_skill_id]
     IN skillId # NULL => us.skill_id = skillId[1]}

\* test_attempts inner join user_skills on user_skill_id, where user_id =
\* userId, and skill_id = skillId when skillId is given
SelectAttemptsOfUserSkills(userId, skillId) ==
  {i \in DOMAIN testAttempts :
     /\ testAttempts[i].user_skill_id \in DOMAIN userSkills
     /\ LET us == userSkills[testAttempts[i].user_skill_id]
        IN /\ us.user_id = userId
           /\ skillId # NULL => us.skill_id = skillId[1]}

\* orderBy(desc(started_at)): the selected rows in any order in which
\* started_at never increases (rows of equal started_at in either order)
OrderByStartedAtDesc(rows) ==
  {s \in [1..Cardinality(rows) -> rows] :
     /\ \A i, j \in DOMAIN s : i # j => s[i] # s[j]
     /\ \A i, j \in DOMAIN s :
          i < j => testAttempts[s[i]].started_at >= testAttempts[s[j]].started_at}

\* the one statement of getUserTestAttempts and its return: the attempts in
\* result order, by id
GetUserTestAttempts(c) ==
  /\ Free(c)
  /\ \E userId \in UserIds, skillId \in OptionalSkillIds :
     \E results \in OrderByStartedAtDesc(SelectAttemptsOfUserSkills(userId, skillId)) :
       calls' = [calls EXCEPT ![c] =
         [pc |-> "done", op |-> "getUserTestAttempts", userId |-> userId,
          skillId |-> skillId, result |-> results]]
  /\ UNCHANGED <<userSkills, TestVars, certificates, now, OtherTables>>

(* ============================= claims ================================= *)
Owner(attemptId) == userSkills[testAttempts[attemptId].user_skill_id].user_id

\* a call slot leaves the free position by invoking submitTest
InvokesSubmit(c) ==
  /\ Free(c)
  /\ calls'[c] # calls[c]
  /\ calls'[c].op = "submitTest"

SubmitUser(r) == IF r.pc = "done" THEN r.userId ELSE r.args.userId
SubmitId(r) == IF r.pc = "done" THEN r.id ELSE r.args.attempt_id

\* a submitTest call executes its update statement
SubmitWrites(c) == calls[c].pc = "sub_update" /\ calls'[c].pc = "done"

\* C1: a submitTest that reaches its update succeeds and sets completed_at;
\* a submitTest by the owner on an attempt that is already completed fails
\* with AlreadyCompleted and leaves the test_attempts table as it was.
C1_ResubmitRejected ==
  [][\A c \in Calls :
       /\ SubmitWrites(c) =>
            /\ calls'[c].result = "ok"
            /\ testAttempts'[calls'[c].id].completed_at # NULL
       /\ ( /\ InvokesSubmit(c)
            /\ SubmitId(calls'[c]) \in DOMAIN testAttempts
            /\ testAttempts[SubmitId(calls'[c])].completed_at # NULL
            /\ SubmitUser(calls'[c]) = Owner(SubmitId(calls'[c])) ) =>
            /\ calls'[c].pc = "done"
            /\ calls'[c].result = "AlreadyCompleted"
            /\ testAttempts' = testAttempts]_vars

C1_Witness ==
  \E c \in Calls :
    /\ calls[c].pc = "done"
    /\ calls[c].op = "submitTest"
    /\ calls[c].result = "AlreadyCompleted"
    /\ calls[c].userId = Owner(calls[c].id)
    /\ testAttempts[calls[c].id].completed_at # NULL

\* C2: at most one submitTest call succeeds for one attempt, whatever the
\* interleaving of the calls' store statements.
C2_AtMostOneSubmitSucceeds ==
  \A c1, c2 \in Calls :
    ( /\ calls[c1].pc = "done" /\ calls[c1].op = "submitTest"
      /\ calls[c1].result = "ok"
      /\ calls[c2].pc = "done" /\ calls[c2].op = "submitTest"
      /\ calls[c2].result = "ok"
      /\ calls[c1].id = calls[c2].id ) => c1 = c2

RECURSIVE SumPoints(_)
SumPoints(S) ==
  IF S = {} THEN 0
  ELSE LET q == CHOOSE x \in S : TRUE IN q.points + SumPoints(S \ {q})

\* the questions of a test that the answers record answers exactly
MatchedQuestions(testId, answers) ==
  {q \in testQuestions :
     /\ q.test_id = testId
     /\ \E k \in DOMAIN answers : k = IdToString(q.id) /\ answers[k] = q.correct_answer}

\* C3: the update of a successful submitTest stores as score the sum of the
\* points of the questions of the attempt's test whose submitted answer is
\* the question's correct_answer, and passed iff score >= passing_score.
C3_ScoreIsSumOfMatched ==
  [][\A c \in Calls :
       SubmitWrites(c) =>
         LET row == testAttempts'[calls[c].args.attempt_id]
         IN /\ row.score = SumPoints(MatchedQuestions(row.test_id, calls[c].args.answers))
            /\ row.passed = (row.score >= miniTests[row.test_id].passing_score)]_vars

\* a completed attempt whose answers name a right answer and an entry for the
\* id of a question of the other test
C3_Witness ==
  \E a \in DOMAIN testAttempts :
    /\ testAttempts[a].completed_at # NULL
    /\ testAttempts[a].score = 1
    /\ testAttempts[a].passed = FALSE
    /\ Len(testAttempts[a].answers) = 2
    /\ \E q \in testQuestions : q.test_id # testAttempts[a].test_id

\* C4: startTest computes total_points as the sum of the points of the
\* questions the test has when startTest reads them and inserts that value;
\* no later step changes the total_points of an attempt.
C4_TotalPointsSnapshot ==
  [][/\ \A c \in Calls :
          /\ (calls[c].pc = "st_questions" /\ calls'[c].pc = "st_insert") =>
               calls'[c].totalPoints =
                 SumPoints({q \in testQuestions : q.test_id = calls[c].args.test_id})
          /\ (calls[c].pc = "st_insert" /\ calls'[c].pc = "done") =>
               testAttempts'[Len(testAttempts')].total_points = calls[c].totalPoints
     /\ \A a \in DOMAIN testAttempts :
          /\ a \in DOMAIN testAttempts'
          /\ testAttempts'[a].total_points = testAttempts[a].total_points]_vars

\* a completed attempt whose test no longer has the questions it was started
\* with
C4_Witness ==
  \E a \in DOMAIN testAttempts :
    /\ testAttempts[a].completed_at # NULL
    /\ testAttempts[a].total_points > 0
    /\ testAttempts[a].total_points #
         SumPoints({q \in testQuestions : q.test_id = testAttempts[a].test_id})

Started(row) ==
  /\ row.completed_at = NULL
  /\ row.score = 0
  /\ row.passed = FALSE
  /\ row.answers = EmptyAnswers

Completed(row) == row.completed_at # NULL

AttemptStatesOk ==
  \A a \in DOMAIN testAttempts :
    Started(testAttempts[a]) \/ Completed(testAttempts[a])

\* C5: every attempt is Started (completed_at null, score 0, passed false,
\* answers empty) or Completed; a new attempt is Started; an attempt changes
\* only by the update of a submitTest, which makes it Completed; a Completed
\* attempt stays Completed.
C5_AttemptStateMachine ==
  [][/\ AttemptStatesOk
     /\ AttemptStatesOk'
     /\ \A a \in DOMAIN testAttempts' :
          IF a \in DOMAIN testAttempts
            THEN /\ Completed(testAttempts[a]) => Completed(testAttempts'[a])
                 /\ testAttempts'[a] # testAttempts[a] =>
                      /\ Completed(testAttempts'[a])
                      /\ \E c \in Calls :
                           SubmitWrites(c) /\ calls[c].args.attempt_id = a
            ELSE /\ Started(testAttempts'[a])
                 /\ \E c \in Calls :
                      calls[c].pc = "st_insert" /\ calls'[c].pc = "done"]_vars

C5_Witness ==
  \E a \in DOMAIN testAttempts :
    /\ Completed(testAttempts[a])
    /\ testAttempts[a].score > 0
    /\ testAttempts[a].passed

\* C6: a submitTest whose attempt id names no attempt, or an attempt of a
\* user skill of another user, fails with NotFound and leaves test_attempts
\* as it was; the update of an attempt is always by a call of its owner.
C6_SubmitOwnerOnly ==
  [][\A c \in Calls :
       /\ ( /\ InvokesSubmit(c)
            /\ \/ SubmitId(calls'[c]) \notin DOMAIN testAttempts
               \/ SubmitUser(calls'[c]) # Owner(SubmitId(calls'[c])) ) =>
            /\ calls'[c].pc = "done"
            /\ calls'[c].result = "NotFound"
            /\ testAttempts' = testAttempts
       /\ SubmitWrites(c) =>
            /\ calls[c].args.userId = Owner(calls[c].args.attempt_id)
            /\ \A a \in DOMAIN testAttempts :
                 a # calls[c].args.attempt_id => testAttempts'[a] = testAttempts[a]]_vars

\* another user's submitTest was refused on an attempt that exists and is
\* still open
C6_Witness ==
  \E c \in Calls :
    /\ calls[c].pc = "done"
    /\ calls[c].op = "submitTest"
    /\ calls[c].result = "NotFound"
    /\ calls[c].id \in DOMAIN testAttempts
    /\ calls[c].userId # Owner(calls[c].id)
    /\ testAttempts[calls[c].id].completed_at = NULL

OwnsUserSkill(args) ==
  /\ args.user_skill_id \in DOMAIN userSkills
  /\ userSkills[args.user_skill_id].user_id = args.userId

TestIsActive(args) ==
  /\ args.test_id \in DOMAIN miniTests
  /\ miniTests[args.test_id].is_active

StartTestGuards ==
  \A c \in Calls :
    /\ calls[c].pc \in {"st_test", "st_questions", "st_insert"} =>
         OwnsUserSkill(calls[c].args)
    /\ calls[c].pc \in {"st_questions", "st_insert"} => TestIsActive(calls[c].args)

\* a startTest call returns
StartReturns(c) ==
  /\ calls'[c] # calls[c]
  /\ calls'[c].pc = "done"
  /\ calls'[c].op = "startTest"

\* C7: a startTest call goes past its first check only with a user skill of
\* the caller and past its second only with an active test; a row is added
\* to test_attempts only by the insert of such a call, which returns ok;
\* every other return of startTest is NotFound and adds no row.
C7_StartTestGuarded ==
  [][/\ StartTestGuards
     /\ StartTestGuards'
     /\ \A c \in Calls :
          StartReturns(c) =>
            IF calls[c].pc = "st_insert"
              THEN /\ calls'[c].result = "ok"
                   /\ OwnsUserSkill(calls[c].args) /\ TestIsActive(calls[c].args)
                   /\ Len(testAttempts') = Len(testAttempts) + 1
                   /\ testAttempts'[Len(testAttempts')].user_skill_id =
                        calls[c].args.user_skill_id
                   /\ testAttempts'[Len(testAttempts')].test_id = calls[c].args.test_id
              ELSE /\ calls'[c].result = "NotFound"
                   /\ testAttempts' = testAttempts
     /\ Len(testAttempts') # Len(testAttempts) =>
          \E c \in Calls : StartReturns(c) /\ calls[c].pc = "st_insert"]_vars

\* a startTest call was refused while another one has created an attempt
C7_Witness ==
  /\ testAttempts # << >>
  /\ \E c \in Calls :
       /\ calls[c].pc = "done"
       /\ calls[c].op = "startTest"
       /\ calls[c].result = "NotFound"


CertReturns(c) ==
  /\ calls'[c] # calls[c]
  /\ calls'[c].pc = "done"
  /\ calls'[c].op = "generateCertificate"

\* C8: generateCertificate fails with NotVerified when the user skill does
\* not exist or is not verified, and with AlreadyExists when a certificate
\* of the user skill exists at its existence check (every call after one that
\* succeeded); a call that fails leaves the certificates table as it was.
C8_GenerateCertificateFailures ==
  [][\A c \in Calls :
       /\ ( /\ Free(c) /\ calls'[c] # calls[c]
            /\ calls'[c].op = "generateCertificate"
            /\ \/ calls'[c].id \notin DOMAIN userSkills
               \/ ~userSkills[calls'[c].id].is_verified ) =>
            /\ calls'[c].pc = "done"
            /\ calls'[c].result = "NotVerified"
       /\ ( /\ calls[c].pc = "gc_existing" /\ calls'[c] # calls[c]
            /\ \E i \in DOMAIN certificates :
                 certificates[i].user_skill_id = calls[c].id ) =>
            /\ calls'[c].pc = "done"
            /\ calls'[c].result = "AlreadyExists"
       /\ (CertReturns(c) /\ calls'[c].result # "ok") =>
            certificates' = certificates]_vars

\* one call was refused for an unverified user skill and one for a user
\* skill that has its certificate
C8_Witness ==
  /\ Len(certificates) = 1
  /\ \E c1, c2 \in Calls :
       /\ calls[c1].pc = "done" /\ calls[c1].op = "generateCertificate"
       /\ calls[c1].result = "AlreadyExists"
       /\ calls[c1].id = certificates[1].user_skill_id
       /\ calls[c2].pc = "done" /\ calls[c2].op = "generateCertificate"
       /\ calls[c2].result = "NotVerified"
       /\ calls[c2].id \in DOMAIN userSkills

\* C9: at most one active certificate exists per user skill, also when two
\* generateCertificate calls for the user skill interleave.
C9_OneActiveCertificatePerUserSkill ==
  \A i, j \in DOMAIN certificates :
    ( /\ certificates[i].user_skill_id = certificates[j].user_skill_id
      /\ certificates[i].is_active
      /\ certificates[j].is_active ) => i = j

CertificateNumbersUnique ==
  \A i, j \in DOMAIN certificates :
    certificates[i].certificate_number = certificates[j].certificate_number => i = j

\* C10: no two certificate rows share a certificate_number, and a
\* certificate row keeps its certificate_number, qr_code and user_skill_id.
C10_CertificateNumberUniqueStable ==
  [][/\ CertificateNumbersUnique
     /\ CertificateNumbersUnique'
     /\ \A i \in DOMAIN certificates :
          /\ i \in DOMAIN certificates'
          /\ certificates'[i].certificate_number = certificates[i].certificate_number
          /\ certificates'[i].qr_code = certificates[i].qr_code
          /\ certificates'[i].user_skill_id = certificates[i].user_skill_id]_vars

\* an insert was rejected for its certificate_number, and a certificate was
\* revoked
C10_Witness ==
  /\ \E c \in Calls :
       /\ calls[c].pc = "done" /\ calls[c].op = "generateCertificate"
       /\ calls[c].result = "StoreError"
  /\ \E i \in DOMAIN certificates : ~certificates[i].is_active

\* a call slot returns from verifyCertificate in this step
VerifyReturns(c) ==
  /\ calls'[c] # calls[c]
  /\ calls'[c].op = "verifyCertificate"

\* the stored row a number designates for a verifier: it carries the number
\* and is active
Matches(row, certNum) ==
  /\ row \in {certificates[i] : i \in DOMAIN certificates}
  /\ row.certificate_number = certNum
  /\ row.is_active

\* C11: verifyCertificate returns for every input string, never an error:
\* the stored certificate that carries the number and is active when there
\* is one, and null otherwise (unknown number, empty string, number of a
\* revoked certificate).
C11_VerifyNeverFails ==
  [][\A c \in Calls : VerifyReturns(c) =>
       LET res == calls'[c].result
           certNum == calls'[c].id
       IN /\ calls'[c].pc = "done"
          /\ res = NULL \/ (Len(res) = 1 /\ Matches(res[1], certNum))
          /\ res = NULL <=> ~\E i \in DOMAIN certificates :
                               Matches(certificates[i], certNum)]_vars

\* verifyCertificate has answered null for the number of a revoked
\* certificate
C11_Witness ==
  \E c \in Calls :
    /\ calls[c].pc = "done"
    /\ calls[c].op = "verifyCertificate"
    /\ calls[c].result = NULL
    /\ \E i \in DOMAIN certificates :
         /\ certificates[i].certificate_number = calls[c].id
         /\ ~certificates[i].is_active

\* the structure a verifier reads out of a stored artifact
DecodeArtifact(qrCode) == JSONParseQr(Base64Decode(qrCode))

\* C12: decoding the stored artifact of any certificate yields the row's
\* certificate number and the row's user skill id.
C12_ArtifactRoundTrip ==
  \A i \in DOMAIN certificates :
    LET qrData == DecodeArtifact(certificates[i].qr_code)
    IN /\ qrData.cert_num = certificates[i].certificate_number
       /\ qrData.user_skill_id = certificates[i].user_skill_id

\* the first certificate issued is the one of user skill 2, and its artifact
\* decodes to user skill 2
C12_Witness ==
  /\ Len(certificates) >= 1
  /\ certificates[1].user_skill_id = 2
  /\ DecodeArtifact(certificates[1].qr_code).user_skill_id = 2

\* a call slot leaves the free position by invoking uploadSkillProof
InvokesUpload(c) ==
  /\ Free(c)
  /\ calls'[c] # calls[c]
  /\ calls'[c].op = "uploadSkillProof"

\* the user skill exists and belongs to the user
IsOwner(userId, usId) ==
  /\ usId \in DOMAIN userSkills
  /\ userSkills[usId].user_id = userId

\* C13: uploadSkillProof called for a user skill that does not exist or is
\* not the caller's fails with NotAuthorized and creates no proof; a call
\* that ends NotAuthorized wrote nothing; and every proof row created is
\* inserted by an uploadSkillProof call whose caller owns the user skill the
\* row references.
C13_UploadOwnershipBeforeWrite ==
  [][/\ \A c \in Calls : InvokesUpload(c) =>
          LET r == calls'[c]
          IN /\ ~IsOwner(r.userId, r.id) =>
                  r.pc = "done" /\ r.result = "NotAuthorized"
             /\ (r.pc = "done" /\ r.result = "NotAuthorized") =>
                  skillProofs' = skillProofs
     /\ Len(skillProofs') > Len(skillProofs) =>
          \E c \in Calls :
            /\ calls[c].pc = "up_insert"
            /\ calls'[c] = Done("uploadSkillProof", calls[c].userId,
                                calls[c].id, "ok")
            /\ skillProofs'[Len(skillProofs')].user_skill_id = calls[c].id
            /\ IsOwner(calls[c].userId, calls[c].id)
            /\ SubSeq(skillProofs', 1, Len(skillProofs)) = skillProofs]_vars

\* a caller was refused for a user skill of the other user, and a proof of
\* that user skill was uploaded by its owner
C13_Witness ==
  /\ \E c \in Calls :
       /\ calls[c] = Done("uploadSkillProof", 1, 2, "NotAuthorized")
  /\ \E i \in DOMAIN skillProofs : skillProofs[i].user_skill_id = 2

\* a call slot returns from a successful processAIVerification in this step
VerificationSucceeds(c, proofId) ==
  /\ Free(c)
  /\ calls'[c] # calls[c]
  /\ calls'[c] = ReturnedFor("processAIVerification", proofId, "ok")

ScoreAbsent(proof) == proof.ai_verification_score = NULL
FeedbackAbsent(proof) == proof.ai_feedback = NULL

\* score and feedback of every proof are absent together or present
\* together, and a proof without them has status uploaded
AbsentTogether ==
  \A i \in DOMAIN skillProofs :
    /\ ScoreAbsent(skillProofs[i]) <=> FeedbackAbsent(skillProofs[i])
    /\ ScoreAbsent(skillProofs[i]) => skillProofs[i].upload_status = "uploaded"

\* C14: the AI score and the feedback of a proof are absent together or
\* present together; a proof is created with both absent and status
\* uploaded, they stay absent until processAIVerification succeeds on the
\* proof, they are present right after it did, and stay present.
C14_ScoreAndFeedbackTogether ==
  [][/\ AbsentTogether
     /\ AbsentTogether'
     /\ \A i \in DOMAIN skillProofs' \ DOMAIN skillProofs :
          /\ ScoreAbsent(skillProofs'[i])
          /\ FeedbackAbsent(skillProofs'[i])
     /\ \A i \in DOMAIN skillProofs :
          /\ i \in DOMAIN skillProofs'
          /\ (\E c \in Calls : VerificationSucceeds(c, i)) =>
               ~ScoreAbsent(skillProofs'[i])
          /\ ~ScoreAbsent(skillProofs[i]) => ~ScoreAbsent(skillProofs'[i])
          /\ (ScoreAbsent(skillProofs[i]) /\ ~ScoreAbsent(skillProofs'[i]))
               => \E c \in Calls : VerificationSucceeds(c, i)]_vars

\* one proof was verified twice and another one never
C14_Witness ==
  /\ Len(skillProofs) = 2
  /\ ScoreAbsent(skillProofs[1])
  /\ ~ScoreAbsent(skillProofs[2])
  /\ \A c \in Calls : calls[c] = ReturnedFor("processAIVerification", 2, "ok")

\* C15: a proof that processAIVerification has scored records a score in
\* [0, 100] (in hundredths), and its status is verified when the recorded
\* score is at least 70 and rejected otherwise.
C15_StatusFollowsRecordedScore ==
  \A i \in DOMAIN skillProofs :
    ~ScoreAbsent(skillProofs[i]) =>
      LET recorded == skillProofs[i].ai_verification_score[1]
      IN /\ recorded \in 0..(100 * 100)
         /\ skillProofs[i].upload_status =
              IF recorded >= VerifiedThreshold * 100
                THEN "verified" ELSE "rejected"

\* a call slot returns or moves on from the first statement of
\* generateCertificate in this step
InvokesGenerate(c) ==
  /\ Free(c)
  /\ calls'[c] # calls[c]
  /\ calls'[c].op = "generateCertificate"

Unverified(row) == ~row.is_verified /\ row.verification_date = NULL

\* C16: no step of addUserSkill, uploadSkillProof, processAIVerification,
\* startTest, submitTest or generateCertificate changes the verified flag or
\* the verification date of a user skill; a user skill is created
\* unverified; hence every user skill is unverified and every
\* generateCertificate call fails with NotVerified.
C16_VerifiedFlagNeverSet ==
  [][/\ \A i \in DOMAIN userSkills :
          /\ i \in DOMAIN userSkills'
          /\ userSkills'[i].is_verified = userSkills[i].is_verified
          /\ userSkills'[i].verification_date = userSkills[i].verification_date
     /\ \A i \in DOMAIN userSkills' : Unverified(userSkills'[i])
     /\ \A c \in Calls : InvokesGenerate(c) =>
          calls'[c] = ReturnedFor("generateCertificate", calls'[c].id,
                                  "NotVerified")]_vars

\* a claimed skill has a verified proof and a passed attempt, and
\* generateCertificate has just failed NotVerified for it
C16_Witness ==
  \E usId \in DOMAIN userSkills :
    /\ \E i \in DOMAIN skillProofs :
         /\ skillProofs[i].user_skill_id = usId
         /\ skillProofs[i].upload_status = "verified"
    /\ \E i \in DOMAIN testAttempts :
         /\ testAttempts[i].user_skill_id = usId
         /\ testAttempts[i].passed
    /\ calls[1] = ReturnedFor("generateCertificate", usId, "NotVerified")

\* C17: no two user skill rows carry the same (user, skill) pair.
C17_OneUserSkillPerPair ==
  \A i, j \in DOMAIN userSkills :
    (/\ userSkills[i].user_id = userSkills[j].user_id
     /\ userSkills[i].skill_id = userSkills[j].skill_id) => i = j

\* C18: no two user rows carry the same email, and no registerUser call
\* ends with the store's own error: a call that does not create the user
\* ends with AlreadyExists.
C18_RegisterLoserAlreadyExists ==
  /\ \A i, j \in DOMAIN users : users[i].email = users[j].email => i = j
  /\ \A c \in Calls :
       (calls[c].pc = "done" /\ calls[c].op = "registerUser") =>
         calls[c].result \in {"ok", "AlreadyExists"}

\* C19: no two job applications carry the same (job listing, applicant)
\* pair, and every application is pending, of an existing applicant and for
\* an existing, active listing.
C19_OneApplicationPerPair ==
  /\ \A i \in DOMAIN jobApplications :
       /\ jobApplications[i].status = "pending"
       /\ jobApplications[i].applicant_id \in DOMAIN users
       /\ SelectActiveJobListing(jobApplications[i].job_listing_id) # {}
  /\ \A i, j \in DOMAIN jobApplications :
       (/\ jobApplications[i].job_listing_id = jobApplications[j].job_listing_id
        /\ jobApplications[i].applicant_id = jobApplications[j].applicant_id)
         => i = j

\* a call slot returns from getUserTestAttempts in this step
ListReturns(c) ==
  /\ Free(c)
  /\ calls'[c] # calls[c]
  /\ calls'[c].op = "getUserTestAttempts"

\* the attempt is one the listing asked for: its user skill is the user's,
\* and for the skill when one is given
Asked(attemptId, userId, skillId) ==
  /\ Owner(attemptId) = userId
  /\ skillId # NULL =>
       userSkills[testAttempts[attemptId].user_skill_id].skill_id = skillId[1]

\* C20: getUserTestAttempts returns each attempt of the user's user skills
\* (of the given skill, when one is given) exactly once and no other
\* attempt, most recently started first.
C20_ListsExactlyOwnAttempts ==
  [][\A c \in Calls : ListReturns(c) =>
       LET r == calls'[c]
           res == r.result
       IN /\ r.pc = "done"
          /\ \A i \in DOMAIN testAttempts :
               Asked(i, r.userId, r.skillId) <=> \E k \in DOMAIN res : res[k] = i
          /\ \A k \in DOMAIN res : res[k] \in DOMAIN testAttempts
          /\ \A k, l \in DOMAIN res : res[k] = res[l] => k = l
          /\ \A k, l \in DOMAIN res :
               k < l => testAttempts[res[k]].started_at
                          >= testAttempts[res[l]].started_at]_vars

\* user 1 listed the attempts of skill 1 and got two of them, the later
\* started first, while an attempt of user 2 and an attempt of user 1 on
\* another skill exist
C20_Witness ==
  \E c \in Calls :
    /\ calls[c].pc = "done"
    /\ calls[c].op = "getUserTestAttempts"
    /\ calls[c].userId = 1
    /\ calls[c].skillId = At(1)
    /\ Len(calls[c].result) = 2
    /\ testAttempts[calls[c].result[1]].started_at
         > testAttempts[calls[c].result[2]].started_at
    /\ calls[c].result[1] > calls[c].result[2]
    /\ \E i \in DOMAIN testAttempts : Owner(i) = 2
    /\ \E i \in DOMAIN testAttempts :
         userSkills[testAttempts[i].user_skill_id].skill_id = 2

\* a call slot returns from getProofUploadStatus in this step
StatusReturns(c) ==
  /\ Free(c)
  /\ calls'[c] # calls[c]
  /\ calls'[c].op = "getProofUploadStatus"

\* the progress the contract gives each status
ExpectedProgress(status) ==
  CASE status = "uploading" -> 25
    [] status = "uploaded" -> 50
    [] status = "processing" -> 75
    [] status \in {"verified", "rejected"} -> 100
    [] OTHER -> 0

\* C21: getProofUploadStatus fails NotFound for the id of no proof;
\* otherwise it returns the proof's current status and the progress of that
\* status (25, 50, 75, 100, 100; 0 for a status outside the map); it never
\* writes the proof.
C21_ProgressIsFunctionOfStatus ==
  [][\A c \in Calls : StatusReturns(c) =>
       LET r == calls'[c]
       IN /\ r.pc = "done"
          /\ skillProofs' = skillProofs
          /\ r.id \notin DOMAIN skillProofs => r.result = "NotFound"
          /\ r.id \in DOMAIN skillProofs =>
               /\ r.result = "ok"
               /\ r.status = skillProofs[r.id].upload_status
               /\ r.progress = ExpectedProgress(r.status)
          /\ StatusProgress("archived") = 0]_vars

\* the status of a proof was read as processing with progress 75 after the
\* proof had been scored
C21_Witness ==
  \E c \in Calls :
    /\ calls[c].pc = "done"
    /\ calls[c].op = "getProofUploadStatus"
    /\ calls[c].result = "ok"
    /\ calls[c].status = "processing"
    /\ calls[c].progress = 75
    /\ skillProofs[calls[c].id].ai_verification_score # NULL

\* a call slot takes a step of the handler op that ends the call
ReturnsFrom(c, op) ==
  /\ calls'[c] # calls[c]
  /\ calls'[c].op = op
  /\ calls'[c].pc = "done"

\* the certificate is active and of a user skill of the user
ActiveCertificateOf(i, userId) ==
  /\ certificates[i].is_active
  /\ userSkills[certificates[i].user_skill_id].user_id = userId

\* C22: getUserCertificates fails NotFound for the id of no user and
\* otherwise returns exactly the active certificates of the user's user
\* skills; downloadCertificate fails NotFound for the id of no certificate
\* and for a revoked certificate, and succeeds for an active one.
C22_RevokedNotReadable ==
  [][\A c \in Calls :
       /\ ReturnsFrom(c, "getUserCertificates") =>
            LET r == calls'[c]
            IN /\ r.id \notin DOMAIN users <=> r.result = "NotFound"
               /\ r.id \in DOMAIN users =>
                    /\ r.result = "ok"
                    /\ r.value = {i \in DOMAIN certificates :
                                    ActiveCertificateOf(i, r.id)}
       /\ ReturnsFrom(c, "downloadCertificate") =>
            LET r == calls'[c]
                missing == r.id \notin DOMAIN certificates
            IN /\ (missing \/ ~certificates[r.id].is_active) <=>
                    r.result = "NotFound"
               /\ r.result \in {"NotFound", "ok"}]_vars

\* user 1 listed the certificates and got none while a revoked certificate
\* of user 1 is stored
C22_Witness ==
  \E c \in Calls :
    /\ calls[c] = ReturnedValue("getUserCertificates", 1, {})
    /\ \E i \in DOMAIN certificates :
         /\ ~certificates[i].is_active
         /\ userSkills[certificates[i].user_skill_id].user_id = 1

\* the password does not verify against any user of the email
LoginRefused(email, password) ==
  \A i \in DOMAIN users :
    users[i].email = email => users[i].password_hash[2] # Pbkdf2(password, users[i].password_hash[1])

\* C23: a loginUser call for an email of no user and a call for a known
\* email with a wrong password end with one and the same failure, 'Invalid
\* email or password', and without a token; every other call returns a
\* token.
C23_LoginFailureUniform ==
  [][\A c \in Calls : ReturnsFrom(c, "loginUser") =>
       LET r == calls'[c]
       IN IF LoginRefused(r.id, r.password)
            THEN /\ r.result = "Invalid email or password"
                 /\ DOMAIN r = {"pc", "op", "id", "password", "result"}
            ELSE /\ r.result = "ok"
                 /\ "token" \in DOMAIN r]_vars

\* one call failed for an email of no user, the other for a registered email
\* with a wrong password, with the same result
C23_Witness ==
  /\ calls[1].pc = "done" /\ calls[1].op = "loginUser"
  /\ calls[2].pc = "done" /\ calls[2].op = "loginUser"
  /\ calls[1].id = "z@x"
  /\ calls[2].id = "c@x"
  /\ \E i \in DOMAIN users : users[i].email = "c@x"
  /\ calls[1].result = calls[2].result
  /\ calls[1].result # "ok"

\* C24: the update of updateUserProfile sets each of full_name, phone,
\* profile_photo, location and bio to the input's value when the input
\* carries the field (null included) and leaves it alone otherwise; email,
\* password hash, rating and verified flag keep their values, other users
\* are untouched; a call for the id of no user fails NotFound, and no step
\* of such a call writes.
C24_UpdateOnlyGivenFields ==
  [][\A c \in Calls :
       /\ (calls[c].pc = "upd_update" /\ calls'[c] # calls[c]) =>
            LET id == calls[c].id
                input == calls[c].input
            IN /\ DOMAIN users' = DOMAIN users
               /\ \A i \in DOMAIN users : i # id => users'[i] = users[i]
               /\ \A f \in ProfileFields :
                    users'[id][f] =
                      IF f \in DOMAIN input THEN input[f] ELSE users[id][f]
               /\ \A f \in {"email", "password_hash", "rating", "is_verified"} :
                    users'[id][f] = users[id][f]
       /\ (ReturnsFrom(c, "updateUserProfile") /\ calls'[c].id \notin DOMAIN users) =>
            /\ calls'[c].result = "NotFound"
            /\ users' = users]_vars

\* the stored phone was set to null while the name was changed and the
\* location, never given, kept its value
C24_Witness ==
  /\ users[1].phone = NULL
  /\ users[1].full_name = "n2"
  /\ users[1].bio = At("v")
  /\ users[1].location = NULL
  /\ users[1].updated_at = MaxTime
  /\ calls[1] = ReturnedFor("updateUserProfile", 1, "ok")

\* the feedback lines that praise the work, and the one that faults it
PraisingReasons == {AiReasons[1], AiReasons[2], AiReasons[3]}
NegativeReason == AiReasons[5]

\* C25: a scored proof carries a non-empty feedback line; a verified proof
\* does not carry the negative line, and a rejected proof carries no
\* praising line.
C25_FeedbackConsistentWithStatus ==
  \A i \in DOMAIN skillProofs :
    ~ScoreAbsent(skillProofs[i]) =>
      LET proof == skillProofs[i]
      IN /\ proof.ai_feedback # NULL
         /\ proof.ai_feedback[1] # ""
         /\ proof.upload_status = "verified" =>
              proof.ai_feedback[1] # NegativeReason
         /\ proof.upload_status = "rejected" =>
              proof.ai_feedback[1] \notin PraisingReasons

\* C26: the score of every completed attempt lies between 0 and the
\* attempt's total_points.
C26_ScoreWithinTotalPoints ==
  \A i \in DOMAIN testAttempts :
    testAttempts[i].completed_at # NULL =>
      /\ 0 <= testAttempts[i].score
      /\ testAttempts[i].score <= testAttempts[i].total_points

\* C27: the test of every attempt is a test of the skill of the attempt's
\* user skill.
C27_AttemptTestOfSameSkill ==
  \A i \in DOMAIN testAttempts :
    miniTests[testAttempts[i].test_id].skill_id =
      userSkills[testAttempts[i].user_skill_id].skill_id

\* C28: processAIVerification succeeds on every existing proof whatever its
\* status, and leaves it verified or rejected with a score and a feedback of
\* this run: an earlier verdict does not stop a later run.
C28_VerificationHasNoPrecondition ==
  [][\A c \in Calls :
       (ReturnsFrom(c, "processAIVerification")
          /\ calls'[c].id \in DOMAIN skillProofs)
       => /\ calls'[c].result = "ok"
          /\ skillProofs'[calls'[c].id].upload_status \in {"verified", "rejected"}
          /\ skillProofs'[calls'[c].id].ai_verification_score # NULL
          /\ skillProofs'[calls'[c].id].ai_feedback # NULL]_vars

\* a proof read as verified was verified again and is now rejected
C28_Witness ==
  /\ calls[2].pc = "done"
  /\ calls[2].op = "getProofUploadStatus"
  /\ calls[2].result = "ok"
  /\ calls[2].status = "verified"
  /\ calls[1].pc = "done"
  /\ calls[1].op = "processAIVerification"
  /\ calls[1].id = calls[2].id
  /\ calls[1].result = "ok"
  /\ skillProofs[calls[2].id].upload_status = "rejected"

\* C29: a user skill whose certificate was revoked, and which has no active
\* certificate, never has an active certificate again.
C29_RevocationIsPermanent ==
  [][\A usId \in DOMAIN userSkills :
       ( /\ \E i \in SelectCertificatesOf(usId) : ~certificates[i].is_active
         /\ \A i \in SelectCertificatesOf(usId) : ~certificates[i].is_active )
       => \A i \in DOMAIN certificates' :
            certificates'[i].user_skill_id = usId => ~certificates'[i].is_active]_vars

\* C30: the total_certificates a portfolio reports is the number of
\* certificates getUserCertificates selects for the user in that state, and
\* a skill entry gets a certificate reference only when its user skill has
\* an active certificate.
C30_PortfolioCountsActiveCertificates ==
  [][\A c \in Calls :
       /\ (ReturnsFrom(c, "getUserPortfolio") /\ calls'[c].result = "ok")
          => calls'[c].total_certificates =
               Cardinality(SelectActiveCertificatesOfUser(calls'[c].id))
       /\ (calls[c].pc = "gp_certificate" /\ calls'[c] # calls[c])
          => LET entry == calls'[c].skills[Len(calls'[c].skills)]
             IN entry.certificate_url # NULL
                  => \E i \in SelectCertificatesOf(entry.user_skill_id) :
                       certificates[i].is_active]_vars

(* -------------------------- specification ------------------------------ *)
\* question sets a test author may have stored before any attempt starts:
\* none, one question of test 1, two questions of test 1, and one question
\* of each test
SeedQuestion(id, testId, ans, pts) ==
  [id |-> id, test_id |-> testId, correct_answer |-> ans, points |-> pts]

SeedQuestionSets ==
  { {},
    {SeedQuestion(1, 1, "a", 1)},
    {SeedQuestion(1, 1, "a", 1), SeedQuestion(2, 1, "b", MaxPoints)},
    {SeedQuestion(1, 1, "a", 1), SeedQuestion(2, 2, "a", MaxPoints)} }

InitStore ==
  /\ InitOtherTables
  /\ userSkills = SeedUserSkills(<<FALSE, FALSE>>)
  /\ \E ps \in PassingScores : miniTests = SeedMiniTests(ps)
  /\ testAttempts = << >>
  /\ certificates = << >>
  /\ now = 1
  /\ calls = [c \in Calls |-> Idle]

\* The test pipeline under concurrent calls, the questions being fixed.
Init ==
  /\ InitStore
  /\ testQuestions \in SeedQuestionSets
  /\ nextQuestionId = MaxQuestionId + 1

TestHandlers(c) ==
  \/ StartTestUserSkill(c)
  \/ StartTestTest(c)
  \/ StartTestQuestions(c)
  \/ StartTestInsert(c)
  \/ SubmitTestAttempt(c)
  \/ SubmitTestQuestions(c)
  \/ SubmitTestTest(c)
  \/ SubmitTestUpdate(c)

Next == \E c \in Calls : TestHandlers(c)

Spec == Init /\ [][Next]_vars

\* The test pipeline with one call at a time, the test author editing the
\* questions between any two store statements of the call.
InitEdit ==
  /\ InitStore
  /\ testQuestions = {}
  /\ nextQuestionId = 1

NextEdit ==
  \/ TestHandlers(1)
  \/ AddQuestion
  \/ RemoveQuestion

SpecEdit == InitEdit /\ [][NextEdit]_vars

\* The certificate issuer under concurrent calls; which user skills are
\* verified is a fact of the store.
InitCert ==
  /\ InitOtherTables
  /\ \E v \in [1..2 -> BOOLEAN] : userSkills = SeedUserSkills(v)
  /\ miniTests = SeedMiniTests(MaxPoints)
  /\ testQuestions = {}
  /\ nextQuestionId = 1
  /\ testAttempts = << >>
  /\ certificates = << >>
  /\ now = 1
  /\ calls = [c \in Calls |-> Idle]

CertHandlers(c) ==
  \/ GenerateCertificateUserSkill(c)
  \/ GenerateCertificateExisting(c)
  \/ GenerateCertificateInsert(c)

NextCert ==
  \/ \E c \in Calls : CertHandlers(c)
  \/ RevokeCertificate

SpecCert == InitCert /\ [][NextCert]_vars

\* The issuer on one call slot, a third party verifying numbers on the
\* other, and revocations.
NextVerify ==
  \/ CertHandlers(1)
  \/ VerifyCertificate(2)
  \/ RevokeCertificate

SpecVerify == InitCert /\ [][NextVerify]_vars

\* The proof pipeline under concurrent calls: the two users hold one user
\* skill each, no proof is uploaded yet.
InitProof ==
  /\ InitOtherTables
  /\ userSkills = SeedUserSkills([i \in 1..2 |-> FALSE])
  /\ miniTests = << >>
  /\ testQuestions = {}
  /\ nextQuestionId = 1
  /\ testAttempts = << >>
  /\ certificates = << >>
  /\ now = 1
  /\ calls = [c \in Calls |-> Idle]

ProofHandlers(c) ==
  \/ UploadSkillProofUserSkill(c)
  \/ UploadSkillProofInsert(c)
  \/ ProcessAIVerification(c)

NextProof == \E c \in Calls : ProofHandlers(c)

SpecProof == InitProof /\ [][NextProof]_vars

\* The whole workflow of one user, one call at a time, from an empty
\* user_skills table: claim a skill, upload and verify proofs, take the test
\* of skill 1, ask for the certificate.  Of generateCertificate only the
\* first statement is listed: C16 says no call gets past it.
InitFlow ==
  /\ users = <<SeedUsers[1]>>
  /\ skills = SeedSkills
  /\ skillProofs = << >>
  /\ jobListings = << >>
  /\ jobApplications = << >>
  /\ userSkills = << >>
  /\ miniTests = SeedMiniTests(MaxPoints)
  /\ testQuestions =
       {SeedQuestion(1, 1, "a", 1), SeedQuestion(2, 1, "b", MaxPoints)}
  /\ nextQuestionId = MaxQuestionId + 1
  /\ testAttempts = << >>
  /\ certificates = << >>
  /\ now = 1
  /\ calls = [c \in Calls |-> Idle]

SkillHandlers(c) ==
  \/ AddUserSkillUser(c)
  \/ AddUserSkillSkill(c)
  \/ AddUserSkillExisting(c)
  \/ AddUserSkillInsert(c)

\* the proof pipeline of the workflow: one proof is uploaded at most
FlowProofHandlers(c) ==
  \/ UploadSkillProofUserSkill(c)
  \/ Len(skillProofs) < MaxFlowProofs /\ UploadSkillProofInsert(c)
  \/ ProcessAIVerification(c)

NextFlow ==
  \/ SkillHandlers(1)
  \/ FlowProofHandlers(1)
  \/ TestHandlers(1)
  \/ GenerateCertificateUserSkill(1)

SpecFlow == InitFlow /\ [][NextFlow]_vars

\* addUserSkill under concurrent calls, from an empty user_skills table.
InitSkill ==
  /\ InitOtherTables
  /\ userSkills = << >>
  /\ miniTests = << >>
  /\ testQuestions = {}
  /\ nextQuestionId = 1
  /\ testAttempts = << >>
  /\ certificates = << >>
  /\ now = 1
  /\ calls = [c \in Calls |-> Idle]

NextSkill == \E c \in Calls : SkillHandlers(c)

SpecSkill == InitSkill /\ [][NextSkill]_vars

\* registerUser under concurrent calls, from the two seeded users.
AuthHandlers(c) ==
  \/ RegisterUserExisting(c)
  \/ RegisterUserInsert(c)

NextAuth == \E c \in Calls : AuthHandlers(c)

SpecAuth == InitSkill /\ [][NextAuth]_vars

\* applyForJob under concurrent calls: the two seeded users, an active and
\* an inactive job listing, no application yet.
InitJob ==
  /\ users = SeedUsers
  /\ skills = SeedSkills
  /\ skillProofs = << >>
  /\ jobListings = SeedJobListings
  /\ jobApplications = << >>
  /\ userSkills = << >>
  /\ miniTests = << >>
  /\ testQuestions = {}
  /\ nextQuestionId = 1
  /\ testAttempts = << >>
  /\ certificates = << >>
  /\ now = 1
  /\ calls = [c \in Calls |-> Idle]

JobHandlers(c) ==
  \/ ApplyForJobApplicant(c)
  \/ ApplyForJobListing(c)
  \/ ApplyForJobExisting(c)
  \/ ApplyForJobInsert(c)

NextJob == \E c \in Calls : JobHandlers(c)

SpecJob == InitJob /\ [][NextJob]_vars

\* Listing attempts while tests are started: user 1 holds skills 1 and 2,
\* user 2 holds skill 1; attempts are started on slot 1 and listed on
\* slot 2.
InitList ==
  /\ InitOtherTables
  /\ userSkills = Append(SeedUserSkills(<<FALSE, FALSE>>), NewUserSkill(1, 2))
  /\ miniTests = SeedMiniTests(MaxPoints)
  /\ testQuestions = {SeedQuestion(1, 1, "a", 1)}
  /\ nextQuestionId = MaxQuestionId + 1
  /\ testAttempts = << >>
  /\ certificates = << >>
  /\ now = 1
  /\ calls = [c \in Calls |-> Idle]

NextList ==
  \/ StartTestUserSkill(1)
  \/ StartTestTest(1)
  \/ StartTestQuestions(1)
  \/ StartTestInsertUpTo(1, MaxListedAttempts)
  \/ GetUserTestAttempts(2)

SpecList == InitList /\ [][NextList]_vars

\* Reading the status of a proof on slot 2 while slot 1 uploads and
\* verifies it and the store moves it through the other statuses.
NextStatus ==
  \/ FlowProofHandlers(1)
  \/ SetUploadStatus
  \/ GetProofUploadStatus(2)

SpecStatus == InitProof /\ [][NextStatus]_vars

\* Reading certificates on slot 2 while slot 1 issues them and the store
\* revokes them.
ReadHandlers(c) ==
  \/ GetUserCertificatesUser(c)
  \/ GetUserCertificatesSelect(c)
  \/ DownloadCertificate(c)

NextRead ==
  \/ CertHandlers(1)
  \/ RevokeCertificate
  \/ ReadHandlers(2)

SpecRead == InitCert /\ [][NextRead]_vars

\* Logging in on both slots while slot 1 also registers users.
NextLogin ==
  \/ AuthHandlers(1)
  \/ \E c \in Calls : LoginUser(c)

SpecLogin == InitSkill /\ [][NextLogin]_vars

\* Profile updates, one call at a time, with user 1 the only user.
NextProfile ==
  \/ UpdateUserProfileUser(1)
  \/ UpdateUserProfileUpdate(1)

SpecProfile == InitFlow /\ [][NextProfile]_vars

\* Verifying proofs again on slot 1 while slot 2 reads their status: here
\* only processAIVerification changes the status of a proof.
NextReverify ==
  \/ FlowProofHandlers(1)
  \/ GetProofUploadStatus(2)

SpecReverify == InitProof /\ [][NextReverify]_vars

\* Reading the portfolio on slot 2 while slot 1 issues certificates and the
\* store revokes them.
PortfolioHandlers(c) ==
  \/ GetUserPortfolioUser(c)
  \/ GetUserPortfolioSkills(c)
  \/ GetUserPortfolioProofCount(c)
  \/ GetUserPortfolioCertificate(c)
  \/ GetUserPortfolioTotal(c)

NextPortfolio ==
  \/ CertHandlers(1)
  \/ RevokeCertificate
  \/ PortfolioHandlers(2)

SpecPortfolio == InitCert /\ [][NextPortfolio]_vars

====
